---- MODULE Spec2Model ----
(***************************************************************************)
(* The form builder's document store (src/src/store/formBuilderStore.ts):  *)
(* the field list, the settings, the selection, the linear undo/redo       *)
(* history and the one-slot "recently deleted" buffer.                     *)
(*                                                                         *)
(* Strings (labels, titles, option texts) are naturals, 0 being "".        *)
(* A FormComponent is a function from the attribute names it carries to    *)
(* their values, so that an optional attribute can be absent and an        *)
(* object spread is a merge of two such functions.                         *)
(* Arrays are 1-based sequences; currentHistoryIndex and the index of the  *)
(* Recently-Deleted slot keep the code's 0-based values.                   *)
(***************************************************************************)
EXTENDS Integers, Sequences, FiniteSets, TLC

\* ---------------------------------------------------------------- bounds
MaxIds == 2       \* ids the callers can hand out to new fields: 1..MaxIds
MaxMut == 3       \* history pushes in one behaviour of Spec
MaxTime == 1      \* values Date.now() can return: 1..MaxTime
RtMut == 3        \* longest mutation run of the round-trip scenario
AliasMut == 3     \* history pushes in one behaviour of the object-identity scenario
MaxRefs == 12     \* objects allocated in one behaviour of the object-identity scenario
WriteMut == 3     \* history pushes in one behaviour of the write-by-write scenario
DelMut == 4       \* history pushes in one behaviour of the deletion scenario
CapMut == 53      \* edits made by the history-cap scenario (more than the cap)

\* ---------------------------------------------------- program constants
HistoryLimit == 50

initialFormSettings ==
  [title |-> 0, description |-> 0, requireLogin |-> FALSE, collectEmail |-> FALSE]

\* null, for selectedComponent and recentlyDeleted
Null == [null |-> TRUE]

\* -------------------------------------------------------------- the state
VARIABLES
  components,            \* FormComponent[]
  selectedComponent,     \* FormComponent | null
  formSettings,          \* FormSettings
  isPreviewMode,         \* boolean
  history,               \* HistoryState[]
  currentHistoryIndex,   \* number, 0-based
  recentlyDeleted,       \* {component, index, timestamp} | null
  \* what the callers and an observer of the store keep (not store state):
  nextId,                \* the next fresh id a caller gives to a new field
  nmut,                  \* history pushes made so far
  lastOp,                \* the last call: [op, id, ret]
  pre,                   \* the most recent structural mutation and the state before it
  posts,                 \* round-trip scenario: the document after each mutation
  undos,                 \* round-trip scenario: undo() calls made
  redos,                 \* round-trip scenario: redo() calls made
  reached,               \* cap scenario: titles of the documents the undo run showed
  refs,                  \* object-identity scenario: which object each reference points at
  inflight               \* write-by-write scenario: the call between its two set() calls

store == <<components, selectedComponent, formSettings, isPreviewMode,
           history, currentHistoryIndex, recentlyDeleted>>
scenario == <<posts, undos, redos, reached, refs, inflight>>
vars == <<components, selectedComponent, formSettings, isPreviewMode,
          history, currentHistoryIndex, recentlyDeleted,
          nextId, nmut, lastOp, pre, posts, undos, redos, reached, refs, inflight>>

\* ------------------------------------------------------------ pure helpers
\* { ...a, ...u }
Spread(a, u) ==
  [k \in (DOMAIN a) \cup (DOMAIN u) |-> IF k \in DOMAIN u THEN u[k] ELSE a[k]]

\* s.slice(-n)
SliceLast(s, n) ==
  IF Len(s) <= n THEN s ELSE SubSeq(s, Len(s) - n + 1, Len(s))

\* s.findIndex(comp => comp.id === id), 0-based, -1 when there is none
FindIndex(s, id) ==
  IF \E i \in DOMAIN s : s[i].id = id
  THEN (CHOOSE i \in DOMAIN s :
          /\ s[i].id = id
          /\ \A j \in DOMAIN s : s[j].id = id => i <= j) - 1
  ELSE -1

\* s.filter(comp => comp.id !== id)
RECURSIVE FilterOut(_, _)
FilterOut(s, id) ==
  IF s = <<>> THEN <<>>
  ELSE IF Head(s).id = id THEN FilterOut(Tail(s), id)
       ELSE <<Head(s)>> \o FilterOut(Tail(s), id)

\* copy = [...s]; copy.splice(index, 0, c)  (splice clamps the start to the length)
Splice(s, index, c) ==
  LET start == IF index > Len(s) THEN Len(s) ELSE index
  IN SubSeq(s, 1, start) \o <<c>> \o SubSeq(s, start + 1, Len(s))

createHistoryState(c, fs, sel) ==
  [components |-> c, formSettings |-> fs, selectedComponent |-> sel]

\* the three historied parts of the current state
Doc == createHistoryState(components, formSettings, selectedComponent)

FieldIds(s) == {s[i].id : i \in DOMAIN s}

DistinctIds(s) == \A i, j \in DOMAIN s : s[i].id = s[j].id => i = j

\* every reordering of s (what a drag-and-drop caller passes to reorderComponents)
Reorderings(s) ==
  {[i \in DOMAIN s |-> s[f[i]]] :
     f \in {g \in [DOMAIN s -> DOMAIN s] : \A i, j \in DOMAIN s : g[i] = g[j] => i = j}}

\* --------------------------------------------------------------- the store
\* pushToHistory() variants, each with one slip:
\* the cursor set to the length instead of the last index
pushToHistory_CursorPastEnd ==
  LET newHistoryState == createHistoryState(components, formSettings, selectedComponent)
      newHistory == Append(SubSeq(history, 1, currentHistoryIndex + 1), newHistoryState)
      limitedHistory == SliceLast(newHistory, HistoryLimit)
  IN /\ history' = limitedHistory
     /\ currentHistoryIndex' = Len(limitedHistory)

\* no slice(-50)
pushToHistory_Unlimited ==
  LET newHistoryState == createHistoryState(components, formSettings, selectedComponent)
      newHistory == Append(SubSeq(history, 1, currentHistoryIndex + 1), newHistoryState)
  IN /\ history' = newHistory
     /\ currentHistoryIndex' = Len(newHistory) - 1

\* no slice(0, currentHistoryIndex + 1)
pushToHistory_KeepsFuture ==
  LET newHistoryState == createHistoryState(components, formSettings, selectedComponent)
      newHistory == Append(history, newHistoryState)
      limitedHistory == SliceLast(newHistory, HistoryLimit)
  IN /\ history' = limitedHistory
     /\ currentHistoryIndex' = Len(limitedHistory) - 1

\* pushToHistory(): snapshot the current state after the entry at the cursor
pushToHistory ==
  LET newHistoryState == createHistoryState(components, formSettings, selectedComponent)
      newHistory == Append(SubSeq(history, 1, currentHistoryIndex + 1), newHistoryState)
      limitedHistory == SliceLast(newHistory, HistoryLimit)
  IN /\ history' = limitedHistory
     /\ currentHistoryIndex' = Len(limitedHistory) - 1

\* addComponent without "recentlyDeleted: null"
addComponent_KeepsSlot(component) ==
  /\ pushToHistory
  /\ components' = Append(components, component)
  /\ UNCHANGED <<selectedComponent, formSettings, isPreviewMode, recentlyDeleted>>

\* the set() of addComponent, after its pushToHistory()
addComponentWrite(component) ==
  /\ components' = Append(components, component)
  /\ recentlyDeleted' = Null
  /\ UNCHANGED <<selectedComponent, formSettings, isPreviewMode>>

addComponent(component) ==
  /\ pushToHistory
  /\ addComponentWrite(component)

\* updateComponent that leaves the selection as it was
updateComponent_StaleSelection(id, updates) ==
  /\ pushToHistory
  /\ components' = [i \in DOMAIN components |->
                      IF components[i].id = id
                      THEN Spread(components[i], updates)
                      ELSE components[i]]
  /\ recentlyDeleted' = Null
  /\ UNCHANGED <<selectedComponent, formSettings, isPreviewMode>>

\* updateComponent guarded by existence, as removeComponent is
updateComponent_Guarded(id, updates) ==
  IF FindIndex(components, id) >= 0
  THEN /\ pushToHistory
       /\ components' = [i \in DOMAIN components |->
                           IF components[i].id = id
                           THEN Spread(components[i], updates)
                           ELSE components[i]]
       /\ selectedComponent' =
            IF selectedComponent # Null /\ selectedComponent.id = id
            THEN Spread(selectedComponent, updates)
            ELSE selectedComponent
       /\ recentlyDeleted' = Null
       /\ UNCHANGED <<formSettings, isPreviewMode>>
  ELSE UNCHANGED store

\* the set() of updateComponent, after its pushToHistory()
updateComponentWrite(id, updates) ==
  /\ components' = [i \in DOMAIN components |->
                      IF components[i].id = id
                      THEN Spread(components[i], updates)
                      ELSE components[i]]
  /\ selectedComponent' =
       IF selectedComponent # Null /\ selectedComponent.id = id
       THEN Spread(selectedComponent, updates)
       ELSE selectedComponent
  /\ recentlyDeleted' = Null
  /\ UNCHANGED <<formSettings, isPreviewMode>>

updateComponent(id, updates) ==
  /\ pushToHistory
  /\ updateComponentWrite(id, updates)

\* removeComponent that records a 1-based index
removeComponent_OneBasedIndex(id, now) ==
  LET componentIndex == FindIndex(components, id)
  IN IF componentIndex >= 0
     THEN /\ pushToHistory
          /\ components' = FilterOut(components, id)
          /\ selectedComponent' =
               IF selectedComponent # Null /\ selectedComponent.id = id
               THEN Null
               ELSE selectedComponent
          /\ recentlyDeleted' = [component |-> components[componentIndex + 1],
                                 index |-> componentIndex + 1,
                                 timestamp |-> now]
          /\ UNCHANGED <<formSettings, isPreviewMode>>
     ELSE UNCHANGED store

\* removeComponent that snapshots before it looks for the field
removeComponent_AlwaysSnapshots(id, now) ==
  LET componentIndex == FindIndex(components, id)
  IN IF componentIndex >= 0
     THEN /\ pushToHistory
          /\ components' = FilterOut(components, id)
          /\ selectedComponent' =
               IF selectedComponent # Null /\ selectedComponent.id = id
               THEN Null
               ELSE selectedComponent
          /\ recentlyDeleted' = [component |-> components[componentIndex + 1],
                                 index |-> componentIndex,
                                 timestamp |-> now]
          /\ UNCHANGED <<formSettings, isPreviewMode>>
     ELSE /\ pushToHistory
          /\ UNCHANGED <<components, selectedComponent, formSettings,
                         isPreviewMode, recentlyDeleted>>

\* the set() of removeComponent, after its pushToHistory()
removeComponentWrite(id, componentIndex, now) ==
  /\ components' = FilterOut(components, id)
  /\ selectedComponent' =
       IF selectedComponent # Null /\ selectedComponent.id = id
       THEN Null
       ELSE selectedComponent
  /\ recentlyDeleted' = [component |-> components[componentIndex + 1],
                         index |-> componentIndex,
                         timestamp |-> now]
  /\ UNCHANGED <<formSettings, isPreviewMode>>

removeComponent(id, now) ==
  LET componentIndex == FindIndex(components, id)
  IN IF componentIndex >= 0
     THEN /\ pushToHistory
          /\ removeComponentWrite(id, componentIndex, now)
     ELSE UNCHANGED store

\* selectComponent that also empties the Recently-Deleted slot
selectComponent_ClearsSlot(component) ==
  /\ selectedComponent' = component
  /\ recentlyDeleted' = Null
  /\ UNCHANGED <<components, formSettings, isPreviewMode, history,
                 currentHistoryIndex>>

selectComponent(component) ==
  /\ selectedComponent' = component
  /\ UNCHANGED <<components, formSettings, isPreviewMode, history,
                 currentHistoryIndex, recentlyDeleted>>

\* reorderComponents without pushToHistory()
reorderComponents_NoSnapshot(newComponents) ==
  /\ components' = newComponents
  /\ recentlyDeleted' = Null
  /\ UNCHANGED <<selectedComponent, formSettings, isPreviewMode, history,
                 currentHistoryIndex>>

\* the set() of reorderComponents, after its pushToHistory()
reorderComponentsWrite(newComponents) ==
  /\ components' = newComponents
  /\ recentlyDeleted' = Null
  /\ UNCHANGED <<selectedComponent, formSettings, isPreviewMode>>

reorderComponents(newComponents) ==
  /\ pushToHistory
  /\ reorderComponentsWrite(newComponents)

\* the set() of updateFormSettings, after its pushToHistory()
updateFormSettingsWrite(settings) ==
  /\ formSettings' = Spread(formSettings, settings)
  /\ recentlyDeleted' = Null
  /\ UNCHANGED <<components, selectedComponent, isPreviewMode>>

updateFormSettings(settings) ==
  /\ pushToHistory
  /\ updateFormSettingsWrite(settings)

setPreviewMode(isPreview) ==
  /\ isPreviewMode' = isPreview
  /\ UNCHANGED <<components, selectedComponent, formSettings, history,
                 currentHistoryIndex, recentlyDeleted>>

\* reset that leaves the history and the cursor alone
reset_KeepsHistory ==
  /\ components' = <<>>
  /\ selectedComponent' = Null
  /\ formSettings' = initialFormSettings
  /\ isPreviewMode' = FALSE
  /\ recentlyDeleted' = Null
  /\ UNCHANGED <<history, currentHistoryIndex>>

reset ==
  LET resetState == createHistoryState(<<>>, initialFormSettings, Null)
  IN /\ components' = <<>>
     /\ selectedComponent' = Null
     /\ formSettings' = initialFormSettings
     /\ isPreviewMode' = FALSE
     /\ history' = <<resetState>>
     /\ currentHistoryIndex' = 0
     /\ recentlyDeleted' = Null

\* undo that drops the entries after the new cursor
undo_DropsFuture(ret) ==
  IF currentHistoryIndex > 0
  THEN LET newIndex == currentHistoryIndex - 1
           historyState == history[newIndex + 1]
       IN /\ components' = historyState.components
          /\ formSettings' = historyState.formSettings
          /\ selectedComponent' = historyState.selectedComponent
          /\ currentHistoryIndex' = newIndex
          /\ history' = SubSeq(history, 1, newIndex + 1)
          /\ recentlyDeleted' = Null
          /\ ret = "true"
          /\ UNCHANGED isPreviewMode
  ELSE /\ ret = "false"
       /\ UNCHANGED store

\* undo without "recentlyDeleted: null"
undo_KeepsSlot(ret) ==
  IF currentHistoryIndex > 0
  THEN LET newIndex == currentHistoryIndex - 1
           historyState == history[newIndex + 1]
       IN /\ components' = historyState.components
          /\ formSettings' = historyState.formSettings
          /\ selectedComponent' = historyState.selectedComponent
          /\ currentHistoryIndex' = newIndex
          /\ ret = "true"
          /\ UNCHANGED <<isPreviewMode, history, recentlyDeleted>>
  ELSE /\ ret = "false"
       /\ UNCHANGED store

\* undo() and redo() take the value they return as a parameter: ret is
\* "true" on the branch that restores an entry and "false" on the other
undo(ret) ==
  IF currentHistoryIndex > 0
  THEN LET newIndex == currentHistoryIndex - 1
           historyState == history[newIndex + 1]
       IN /\ components' = historyState.components
          /\ formSettings' = historyState.formSettings
          /\ selectedComponent' = historyState.selectedComponent
          /\ currentHistoryIndex' = newIndex
          /\ recentlyDeleted' = Null
          /\ ret = "true"
          /\ UNCHANGED <<isPreviewMode, history>>
  ELSE /\ ret = "false"
       /\ UNCHANGED store

redo(ret) ==
  IF currentHistoryIndex < Len(history) - 1
  THEN LET newIndex == currentHistoryIndex + 1
           historyState == history[newIndex + 1]
       IN /\ components' = historyState.components
          /\ formSettings' = historyState.formSettings
          /\ selectedComponent' = historyState.selectedComponent
          /\ currentHistoryIndex' = newIndex
          /\ recentlyDeleted' = Null
          /\ ret = "true"
          /\ UNCHANGED <<isPreviewMode, history>>
  ELSE /\ ret = "false"
       /\ UNCHANGED store

canUndo == currentHistoryIndex > 0

\* canRedo with the bound off by one
canRedo_OffByOne == currentHistoryIndex < Len(history)

canRedo == currentHistoryIndex < Len(history) - 1

\* undoDelete that snapshots before it reinserts the field
undoDelete_Snapshots ==
  IF recentlyDeleted # Null
  THEN /\ pushToHistory
       /\ components' = Splice(components, recentlyDeleted.index, recentlyDeleted.component)
       /\ recentlyDeleted' = Null
       /\ UNCHANGED <<selectedComponent, formSettings, isPreviewMode>>
  ELSE UNCHANGED store

\* undoDelete without "recentlyDeleted: null"
undoDelete_KeepsSlot ==
  IF recentlyDeleted # Null
  THEN /\ components' = Splice(components, recentlyDeleted.index, recentlyDeleted.component)
       /\ UNCHANGED <<selectedComponent, formSettings, isPreviewMode, history,
                      currentHistoryIndex, recentlyDeleted>>
  ELSE UNCHANGED store

\* undoDelete that appends the field instead of splicing it in at its index
undoDelete_AtEnd ==
  IF recentlyDeleted # Null
  THEN /\ components' = Append(components, recentlyDeleted.component)
       /\ recentlyDeleted' = Null
       /\ UNCHANGED <<selectedComponent, formSettings, isPreviewMode, history,
                      currentHistoryIndex>>
  ELSE UNCHANGED store

undoDelete ==
  IF recentlyDeleted # Null
  THEN /\ components' = Splice(components, recentlyDeleted.index, recentlyDeleted.component)
       /\ recentlyDeleted' = Null
       /\ UNCHANGED <<selectedComponent, formSettings, isPreviewMode, history,
                      currentHistoryIndex>>
  ELSE UNCHANGED store

clearRecentlyDeleted ==
  /\ recentlyDeleted' = Null
  /\ UNCHANGED <<components, selectedComponent, formSettings, isPreviewMode,
                 history, currentHistoryIndex>>

\* ------------------------------------------------------------- the callers
\* The UI around the store: what it passes in and what it remembers.

\* the field the palette creates for a fresh id
\* (a text field "Name", or a select "Color" with two options)
NewField(id) ==
  IF id % 2 = 1
  THEN [id |-> id, type |-> "text", label |-> 1]
  ELSE [id |-> id, type |-> "select", label |-> 2, options |-> <<1, 2>>]

\* the partial updates the properties panel sends
ComponentUpdates == { [required |-> TRUE], [label |-> 3] }

SettingsUpdates == { [title |-> 1], [requireLogin |-> TRUE] }

IdSet == 1..MaxIds

Timestamps == 1..MaxTime

StructuralOps ==
  {"addComponent", "updateComponent", "removeComponent", "reorderComponents",
   "updateFormSettings"}

Call(op, id, ret) == [op |-> op, id |-> id, ret |-> ret]

\* pre records the most recent structural mutation (one that pushed a
\* snapshot): its name and argument, and the document, cursor, history length
\* and Recently-Deleted slot as they were just before it. age is 0 while that
\* mutation is the last call and 1 while it is the call before the last; after
\* that the record is forgotten (NoPre).
NoPre ==
  [op |-> "none", id |-> 0,
   doc |-> createHistoryState(<<>>, initialFormSettings, Null),
   index |-> 0, length |-> 1, slot |-> Null, age |-> 2]

\* the bookkeeping of a call that pushes no snapshot
Plain(op, id, ret) ==
  /\ lastOp' = Call(op, id, ret)
  /\ pre' = IF pre.age = 0 THEN [pre EXCEPT !.age = 1] ELSE NoPre
  /\ UNCHANGED <<nextId, nmut>>

\* the bookkeeping of a structural mutation
Structural(op, id) ==
  /\ lastOp' = Call(op, id, "undefined")
  /\ pre' = [op |-> op, id |-> id, doc |-> Doc, index |-> currentHistoryIndex,
             length |-> Len(history), slot |-> recentlyDeleted, age |-> 0]
  /\ nmut' = nmut + 1

CallAddComponent(limit) ==
  /\ nmut < limit
  /\ nextId <= MaxIds
  /\ addComponent(NewField(nextId))
  /\ nextId' = nextId + 1
  /\ Structural("addComponent", nextId)

CallUpdateComponent(limit) ==
  /\ nmut < limit
  /\ \E id \in IdSet, updates \in ComponentUpdates :
       /\ updateComponent(id, updates)
       /\ Structural("updateComponent", id)
  /\ UNCHANGED nextId

\* a removeComponent that finds the field
CallRemoveComponent(limit) ==
  /\ nmut < limit
  /\ \E id \in FieldIds(components), now \in Timestamps :
       /\ removeComponent(id, now)
       /\ Structural("removeComponent", id)
  /\ UNCHANGED nextId

\* a removeComponent with an id no current field has
CallRemoveAbsent ==
  \E id \in IdSet \ FieldIds(components), now \in Timestamps :
    /\ removeComponent(id, now)
    /\ Plain("removeComponent", id, "undefined")

CallReorderComponents(limit) ==
  /\ nmut < limit
  /\ \E newComponents \in Reorderings(components) : reorderComponents(newComponents)
  /\ Structural("reorderComponents", 0)
  /\ UNCHANGED nextId

CallUpdateFormSettings(limit, choices) ==
  /\ nmut < limit
  /\ \E settings \in choices : updateFormSettings(settings)
  /\ Structural("updateFormSettings", 0)
  /\ UNCHANGED nextId

\* the canvas selects one of the current fields, or nothing
CallSelectComponent ==
  \E component \in {components[i] : i \in DOMAIN components} \cup {Null} :
    /\ selectComponent(component)
    /\ Plain("selectComponent", IF component = Null THEN 0 ELSE component.id, "undefined")

CallSetPreviewMode ==
  /\ setPreviewMode(~isPreviewMode)
  /\ Plain("setPreviewMode", 0, "undefined")

CallReset ==
  /\ reset
  /\ Plain("reset", 0, "undefined")

CallUndo ==
  \E ret \in {"true", "false"} :
    /\ undo(ret)
    /\ Plain("undo", 0, ret)

CallRedo ==
  \E ret \in {"true", "false"} :
    /\ redo(ret)
    /\ Plain("redo", 0, ret)

\* the header asks canUndo() / canRedo() to enable its buttons
CallCanUndo ==
  \E ret \in {"true", "false"} :
    /\ (ret = "true") = canUndo
    /\ UNCHANGED store
    /\ Plain("canUndo", 0, ret)

CallCanRedo ==
  \E ret \in {"true", "false"} :
    /\ (ret = "true") = canRedo
    /\ UNCHANGED store
    /\ Plain("canRedo", 0, ret)

CallUndoDelete ==
  /\ undoDelete
  /\ Plain("undoDelete", 0, "undefined")

CallClearRecentlyDeleted ==
  /\ clearRecentlyDeleted
  /\ Plain("clearRecentlyDeleted", 0, "undefined")

\* --------------------------------------------------------- object identity
\* The store's values say what each object holds; refs says which object it
\* is. An object is a positive number, 0 is null. refs.comps[i] is the object
\* of components[i], refs.settings the formSettings object, refs.sel the
\* selectedComponent object, refs.hist[k] the objects of history[k] and
\* refs.slot the object of recentlyDeleted.component. refs.next is the first
\* number no object has yet.
InitialSettingsRef == 1   \* the module-level initialFormSettings object

\* createHistoryState: a new array of the SAME field objects, a new settings
\* object (at fresh) and a new copy of the selected field (at fresh + 1)
createHistoryStateRefs(c, sel, fresh) ==
  [comps |-> c, settings |-> fresh, sel |-> IF sel = 0 THEN 0 ELSE fresh + 1]

initialRefs ==
  [comps |-> <<>>, settings |-> InitialSettingsRef, sel |-> 0,
   hist |-> <<createHistoryStateRefs(<<>>, 0, 2)>>, slot |-> 0, next |-> 4]

pushToHistoryRefs(r) ==
  LET newHistoryState == createHistoryStateRefs(r.comps, r.sel, r.next)
      newHistory == Append(SubSeq(r.hist, 1, currentHistoryIndex + 1), newHistoryState)
  IN [r EXCEPT !.hist = SliceLast(newHistory, HistoryLimit), !.next = r.next + 2]

\* [...state.components, component]: the caller's new object joins the array
addComponentRefs(r) ==
  LET p == pushToHistoryRefs(r)
  IN [p EXCEPT !.comps = Append(p.comps, p.next), !.slot = 0, !.next = p.next + 1]

\* map: { ...comp, ...updates } is a new object, every other comp is kept;
\* the selection is a new object when it has the id
updateComponentRefs(r, id) ==
  LET p == pushToHistoryRefs(r)
      n == Len(p.comps)
  IN [p EXCEPT !.comps = [i \in DOMAIN p.comps |->
                            IF components[i].id = id THEN p.next + i - 1 ELSE p.comps[i]],
               !.sel = IF selectedComponent # Null /\ selectedComponent.id = id
                       THEN p.next + n
                       ELSE p.sel,
               !.slot = 0,
               !.next = p.next + n + 1]

\* filter keeps the objects it keeps
RECURSIVE FilterOutRefs(_, _, _)
FilterOutRefs(s, rs, id) ==
  IF s = <<>> THEN <<>>
  ELSE IF Head(s).id = id THEN FilterOutRefs(Tail(s), Tail(rs), id)
       ELSE <<Head(rs)>> \o FilterOutRefs(Tail(s), Tail(rs), id)

\* recentlyDeleted.component is state.components[componentIndex] itself
removeComponentRefs(r, id) ==
  LET componentIndex == FindIndex(components, id)
      p == pushToHistoryRefs(r)
  IN IF componentIndex >= 0
     THEN [p EXCEPT !.comps = FilterOutRefs(components, p.comps, id),
                    !.sel = IF selectedComponent # Null /\ selectedComponent.id = id
                            THEN 0
                            ELSE p.sel,
                    !.slot = p.comps[componentIndex + 1]]
     ELSE r

\* the canvas passes the object it rendered, one of state.components, or null
selectComponentRefs(r, id) ==
  [r EXCEPT !.sel = IF id = 0 THEN 0 ELSE r.comps[FindIndex(components, id) + 1]]

updateFormSettingsRefs(r) ==
  LET p == pushToHistoryRefs(r)
  IN [p EXCEPT !.settings = p.next, !.slot = 0, !.next = p.next + 1]

\* formSettings becomes the module-level object again
resetRefs(r) ==
  [comps |-> <<>>, settings |-> InitialSettingsRef, sel |-> 0,
   hist |-> <<createHistoryStateRefs(<<>>, 0, r.next)>>, slot |-> 0, next |-> r.next + 2]

\* undo / redo restore from the entry at newIndex: [...historyState.components]
\* is a new array of the entry's own field objects; settings and selection
\* are new copies
restoreRefs(r, newIndex) ==
  LET historyState == r.hist[newIndex + 1]
  IN [r EXCEPT !.comps = historyState.comps,
               !.settings = r.next,
               !.sel = IF historyState.sel = 0 THEN 0 ELSE r.next + 1,
               !.slot = 0,
               !.next = r.next + 2]

undoRefs(r) ==
  IF currentHistoryIndex > 0 THEN restoreRefs(r, currentHistoryIndex - 1) ELSE r

redoRefs(r) ==
  IF currentHistoryIndex < Len(history) - 1 THEN restoreRefs(r, currentHistoryIndex + 1) ELSE r

\* splice puts the slot's own object back
undoDeleteRefs(r) ==
  IF recentlyDeleted # Null
  THEN [r EXCEPT !.comps = Splice(r.comps, recentlyDeleted.index, r.slot), !.slot = 0]
  ELSE r

\* no call is between its two set() calls
NoCall == [op |-> "none", id |-> 0, arg |-> Null, now |-> 0]

\* ------------------------------------------------------- the specification
Init ==
  /\ components = <<>>
  /\ selectedComponent = Null
  /\ formSettings = initialFormSettings
  /\ isPreviewMode = FALSE
  /\ history = <<createHistoryState(<<>>, initialFormSettings, Null)>>
  /\ currentHistoryIndex = 0
  /\ recentlyDeleted = Null
  /\ nextId = 1
  /\ nmut = 0
  /\ lastOp = Call("create", 0, "undefined")
  /\ pre = NoPre
  /\ posts = <<>>
  /\ undos = 0
  /\ redos = 0
  /\ reached = {0}
  /\ refs = initialRefs
  /\ inflight = NoCall

AddStep == CallAddComponent(MaxMut) /\ UNCHANGED scenario
UpdateStep == CallUpdateComponent(MaxMut) /\ UNCHANGED scenario
RemoveStep == CallRemoveComponent(MaxMut) /\ UNCHANGED scenario
RemoveAbsentStep == CallRemoveAbsent /\ UNCHANGED scenario
ReorderStep == CallReorderComponents(MaxMut) /\ UNCHANGED scenario
SettingsStep == CallUpdateFormSettings(MaxMut, SettingsUpdates) /\ UNCHANGED scenario
SelectStep == CallSelectComponent /\ UNCHANGED scenario
PreviewStep == CallSetPreviewMode /\ UNCHANGED scenario
ResetStep == CallReset /\ UNCHANGED scenario
UndoStep == CallUndo /\ UNCHANGED scenario
RedoStep == CallRedo /\ UNCHANGED scenario
CanUndoStep == CallCanUndo /\ UNCHANGED scenario
CanRedoStep == CallCanRedo /\ UNCHANGED scenario
UndoDeleteStep == CallUndoDelete /\ UNCHANGED scenario
ClearStep == CallClearRecentlyDeleted /\ UNCHANGED scenario

Next ==
  \/ AddStep
  \/ UpdateStep
  \/ RemoveStep
  \/ RemoveAbsentStep
  \/ ReorderStep
  \/ SettingsStep
  \/ SelectStep
  \/ PreviewStep
  \/ ResetStep
  \/ UndoStep
  \/ RedoStep
  \/ CanUndoStep
  \/ CanRedoStep
  \/ UndoDeleteStep
  \/ ClearStep

Spec == Init /\ [][Next]_vars

\* ------------------------------------------------ the round-trip scenario
\* N structural mutations from the reset state, then N undo() calls, then
\* N redo() calls. posts[k] is the document right after the k-th mutation.
RtMutating == undos = 0

RtRecord ==
  /\ posts' = Append(posts, Doc')
  /\ UNCHANGED <<undos, redos, reached, refs, inflight>>

RtAdd == RtMutating /\ CallAddComponent(RtMut) /\ RtRecord
RtUpdate == RtMutating /\ CallUpdateComponent(RtMut) /\ RtRecord
RtRemove == RtMutating /\ CallRemoveComponent(RtMut) /\ RtRecord
RtReorder == RtMutating /\ CallReorderComponents(RtMut) /\ RtRecord
RtSettings == RtMutating /\ CallUpdateFormSettings(RtMut, SettingsUpdates) /\ RtRecord

RtUndo ==
  /\ redos = 0
  /\ undos < Len(posts)
  /\ CallUndo
  /\ undos' = undos + 1
  /\ UNCHANGED <<posts, redos, reached, refs, inflight>>

RtRedo ==
  /\ undos >= 1
  /\ undos = Len(posts)
  /\ redos < undos
  /\ CallRedo
  /\ redos' = redos + 1
  /\ UNCHANGED <<posts, undos, reached, refs, inflight>>

RtNext == RtAdd \/ RtUpdate \/ RtRemove \/ RtReorder \/ RtSettings \/ RtUndo \/ RtRedo

SpecRoundTrip == Init /\ [][RtNext]_vars

\* ----------------------------------------------- the history-cap scenario
\* More edits than the history holds, each giving the form a title never used
\* before (the document after the i-th edit is the one titled i, the empty
\* document is titled 0), then undo() until it returns false. reached is the
\* set of titles of the documents shown since the last edit, the tip included.
CapEdit ==
  /\ lastOp.op # "undo"
  /\ CallUpdateFormSettings(CapMut, {[title |-> nmut + 1]})
  /\ reached' = {nmut + 1}
  /\ UNCHANGED <<posts, undos, redos, refs, inflight>>

CapUndo ==
  /\ CallUndo
  /\ reached' = reached \cup {formSettings'.title}
  /\ UNCHANGED <<posts, undos, redos, refs, inflight>>

CapNext == CapEdit \/ CapUndo

SpecCap == Init /\ [][CapNext]_vars

\* ------------------------------------------------- the deletion scenario
\* Fields are added, edited, selected, removed and brought back; enough
\* pushes for a second removal to find the slot still full.
DelAdd == CallAddComponent(DelMut) /\ UNCHANGED scenario
DelUpdate == CallUpdateComponent(DelMut) /\ UNCHANGED scenario
DelSelect == CallSelectComponent /\ UNCHANGED scenario
DelRemove == CallRemoveComponent(DelMut) /\ UNCHANGED scenario
DelRemoveAbsent == CallRemoveAbsent /\ UNCHANGED scenario
DelUndoDelete == CallUndoDelete /\ UNCHANGED scenario

DelNext ==
  DelAdd \/ DelUpdate \/ DelSelect \/ DelRemove \/ DelRemoveAbsent \/ DelUndoDelete

SpecDelete == Init /\ [][DelNext]_vars

\* ------------------------------------------ the object-identity scenario
\* The store's calls with refs following each one.
AliasRoom == refs.next <= MaxRefs
AliasRest == UNCHANGED <<posts, undos, redos, reached, inflight>>

AliasAdd ==
  /\ AliasRoom
  /\ CallAddComponent(AliasMut)
  /\ refs' = addComponentRefs(refs)
  /\ AliasRest

AliasUpdate ==
  /\ AliasRoom
  /\ CallUpdateComponent(AliasMut)
  /\ refs' = updateComponentRefs(refs, lastOp'.id)
  /\ AliasRest

AliasRemove ==
  /\ AliasRoom
  /\ CallRemoveComponent(AliasMut)
  /\ refs' = removeComponentRefs(refs, lastOp'.id)
  /\ AliasRest

AliasSelect ==
  /\ CallSelectComponent
  /\ refs' = selectComponentRefs(refs, lastOp'.id)
  /\ AliasRest

AliasSettings ==
  /\ AliasRoom
  /\ CallUpdateFormSettings(AliasMut, SettingsUpdates)
  /\ refs' = updateFormSettingsRefs(refs)
  /\ AliasRest

AliasReset ==
  /\ AliasRoom
  /\ CallReset
  /\ refs' = resetRefs(refs)
  /\ AliasRest

AliasUndo ==
  /\ AliasRoom
  /\ CallUndo
  /\ refs' = undoRefs(refs)
  /\ AliasRest

AliasRedo ==
  /\ AliasRoom
  /\ CallRedo
  /\ refs' = redoRefs(refs)
  /\ AliasRest

AliasUndoDelete ==
  /\ CallUndoDelete
  /\ refs' = undoDeleteRefs(refs)
  /\ AliasRest

AliasNext ==
  \/ AliasAdd
  \/ AliasUpdate
  \/ AliasRemove
  \/ AliasSelect
  \/ AliasSettings
  \/ AliasReset
  \/ AliasUndo
  \/ AliasRedo
  \/ AliasUndoDelete

SpecAlias == Init /\ [][AliasNext]_vars

\* ------------------------------------------- the write-by-write scenario
\* zustand's set() replaces the state and calls every subscriber before it
\* returns, so a subscriber sees the store after EACH set(). A structural
\* mutation makes two: the one inside pushToHistory() and its own. Here every
\* step is one set(); inflight remembers the call that has made its first.
\* No other call starts in between (the handlers run to completion).
Idle == inflight.op = "none"

WriteRest == UNCHANGED <<posts, undos, redos, reached, refs>>

\* the set() inside pushToHistory(), made on behalf of the call (op, id, arg)
WritePush(op, id, arg, now) ==
  /\ Idle
  /\ nmut < WriteMut
  /\ pushToHistory
  /\ UNCHANGED <<components, selectedComponent, formSettings, isPreviewMode,
                 recentlyDeleted>>
  /\ inflight' = [op |-> op, id |-> id, arg |-> arg, now |-> now]
  /\ Structural(op, id)
  /\ WriteRest

WriteAddPush ==
  /\ nextId <= MaxIds
  /\ WritePush("addComponent", nextId, NewField(nextId), 0)
  /\ nextId' = nextId + 1

WriteUpdatePush ==
  /\ \E id \in IdSet, updates \in ComponentUpdates :
       WritePush("updateComponent", id, updates, 0)
  /\ UNCHANGED nextId

\* removeComponent pushes only when findIndex found the field
WriteRemovePush ==
  /\ \E id \in FieldIds(components), now \in Timestamps :
       /\ FindIndex(components, id) >= 0
       /\ WritePush("removeComponent", id, Null, now)
  /\ UNCHANGED nextId

WriteReorderPush ==
  /\ \E newComponents \in Reorderings(components) :
       WritePush("reorderComponents", 0, newComponents, 0)
  /\ UNCHANGED nextId

WriteSettingsPush ==
  /\ \E settings \in SettingsUpdates :
       WritePush("updateFormSettings", 0, settings, 0)
  /\ UNCHANGED nextId

\* the call's own set(), which ends it
WriteMutation ==
  /\ ~Idle
  /\ CASE inflight.op = "addComponent" -> addComponentWrite(inflight.arg)
       [] inflight.op = "updateComponent" -> updateComponentWrite(inflight.id, inflight.arg)
       [] inflight.op = "removeComponent" ->
            removeComponentWrite(inflight.id, FindIndex(components, inflight.id), inflight.now)
       [] inflight.op = "reorderComponents" -> reorderComponentsWrite(inflight.arg)
       [] inflight.op = "updateFormSettings" -> updateFormSettingsWrite(inflight.arg)
  /\ UNCHANGED <<history, currentHistoryIndex>>
  /\ inflight' = NoCall
  /\ UNCHANGED <<nextId, nmut, lastOp, pre>>
  /\ WriteRest

\* the calls that make one set()
WriteSelect == Idle /\ CallSelectComponent /\ UNCHANGED scenario
WriteUndo == Idle /\ CallUndo /\ UNCHANGED scenario
WriteRedo == Idle /\ CallRedo /\ UNCHANGED scenario
WriteUndoDelete == Idle /\ CallUndoDelete /\ UNCHANGED scenario

WriteNext ==
  \/ WriteAddPush
  \/ WriteUpdatePush
  \/ WriteRemovePush
  \/ WriteReorderPush
  \/ WriteSettingsPush
  \/ WriteMutation
  \/ WriteSelect
  \/ WriteUndo
  \/ WriteRedo
  \/ WriteUndoDelete

SpecWrites == Init /\ [][WriteNext]_vars

\* ------------------------------------------------------------- the claims

\* C1: a single undo() right after a structural mutation M made at the history
\* tip restores Fields, Settings and selection to what they were just before M.
C1_UndoRestoresPreMutation ==
  (/\ lastOp.op = "undo"
   /\ pre.age = 1
   /\ pre.index = pre.length - 1)
  => Doc = pre.doc

\* C2: after N mutations from the reset state, N undo() calls and k redo()
\* calls (1 <= k <= N), the document equals the document right after the
\* k-th mutation.
C2_RoundTrip ==
  redos >= 1 => Doc = posts[redos]

\* C3: in every reachable state 0 <= currentHistoryIndex < history.length
C3_CursorInRange ==
  /\ 0 <= currentHistoryIndex
  /\ currentHistoryIndex < Len(history)

C3_Witness ==
  /\ lastOp = Call("undo", 0, "true")
  /\ currentHistoryIndex = 0
  /\ Len(history) > 2

\* C4: history.length never exceeds the cap of 50, also after more than 50
\* structural mutations; a push that would exceed the cap drops the oldest
\* entry from the front and leaves the cursor on the entry just pushed, the
\* last one.
C4_HistoryBound ==
  /\ [](Len(history) <= HistoryLimit)
  /\ [][(pre'.age = 0 /\ currentHistoryIndex + 2 > HistoryLimit)
        => /\ history' = Append(Tail(history), Doc)
           /\ currentHistoryIndex' = Len(history') - 1
           /\ history'[currentHistoryIndex' + 1] = Doc]_vars

C4_Witness ==
  /\ nmut > HistoryLimit
  /\ pre.age = 0
  /\ pre.length = HistoryLimit
  /\ Len(history) = HistoryLimit
  /\ history[1] # pre.doc
  /\ currentHistoryIndex = HistoryLimit - 1

\* C5: after k > 50 structural mutations from the empty document, undo()
\* repeated from the tip until it returns false shows exactly the 50 most
\* recent document states (those after mutations k-49..k) and none older.
C5_UndoReachesFiftyMostRecent ==
  (nmut > HistoryLimit /\ lastOp = Call("undo", 0, "false"))
  => reached = (nmut - HistoryLimit + 1)..nmut

\* C6: a structural mutation discards every history entry beyond the cursor
\* before it appends its snapshot, so canRedo() is false right after it; undo()
\* and redo() never change the history and only ever restore one of its
\* entries, so a discarded entry is never restored.
C6_BranchDiscard ==
  [][/\ (pre'.age = 0 /\ currentHistoryIndex + 2 <= HistoryLimit)
        => /\ Len(history') = currentHistoryIndex + 2
           /\ \A i \in 1..(currentHistoryIndex + 1) : history'[i] = history[i]
           /\ history'[currentHistoryIndex + 2] = Doc
           /\ ~canRedo'
     /\ lastOp'.op \in {"undo", "redo"}
        => /\ history' = history
           /\ lastOp'.ret = "true" => Doc' = history[currentHistoryIndex' + 1]]_vars

C6_Witness ==
  /\ pre.age = 0
  /\ pre.index < pre.length - 1
  /\ Len(history) = pre.index + 2
  /\ Len(history) < pre.length

\* C7: after a structural mutation, an undo or a redo, the history entry at
\* currentHistoryIndex equals the current (Fields, Settings, selection).
C7_CursorEntryIsCurrent ==
  (\/ pre.age = 0
   \/ lastOp.op \in {"undo", "redo"} /\ lastOp.ret = "true")
  => history[currentHistoryIndex + 1] = Doc

\* C8: with pairwise distinct field ids, removeField(F.id) immediately followed
\* by undoDelete() gives back the Fields sequence as it was before the removal
\* (F at its original index) and leaves the Recently-Deleted slot empty.
C8_DeleteRestore ==
  (/\ lastOp.op = "undoDelete"
   /\ pre.age = 1
   /\ pre.op = "removeComponent"
   /\ DistinctIds(pre.doc.components))
  => /\ components = pre.doc.components
     /\ recentlyDeleted = Null

C8_Witness ==
  /\ lastOp.op = "undoDelete"
  /\ pre.age = 1
  /\ pre.op = "removeComponent"
  /\ Len(components) = 2
  /\ components[1].id = pre.id

\* C9: every add, update, reorder, settings update, successful undo or redo,
\* reset and clearRecentlyDeleted leaves the Recently-Deleted slot empty, and
\* an undoDelete() made while the slot is empty changes no part of the state.
C9_SlotCleared ==
  [][/\ (\/ lastOp'.op \in {"addComponent", "updateComponent", "reorderComponents",
                            "updateFormSettings", "reset", "clearRecentlyDeleted"}
         \/ lastOp'.op \in {"undo", "redo"} /\ lastOp'.ret = "true")
        => recentlyDeleted' = Null
     /\ (lastOp'.op = "undoDelete" /\ recentlyDeleted = Null)
        => UNCHANGED store]_vars

\* removeField(F.id), addField(G), undoDelete(): F is not back
C9_Witness ==
  /\ lastOp.op = "undoDelete"
  /\ pre.age = 1
  /\ pre.op = "addComponent"
  /\ pre.slot # Null
  /\ pre.slot.component.id \notin FieldIds(components)
  /\ recentlyDeleted = Null

\* C10: a non-null selection equals, attribute for attribute, the field with
\* the same id in the current Fields sequence.
C10_SelectionConsistent ==
  selectedComponent # Null
  => \E i \in DOMAIN components :
       /\ components[i].id = selectedComponent.id
       /\ components[i] = selectedComponent

\* selectField(X), updateField(X.id, u): the selection carries u
C10_Witness ==
  /\ pre.age = 0
  /\ pre.op = "updateComponent"
  /\ pre.doc.selectedComponent # Null
  /\ pre.doc.selectedComponent.id = pre.id
  /\ selectedComponent # Null
  /\ selectedComponent # pre.doc.selectedComponent

\* C11: removeField(id) with an id no current field has changes nothing:
\* Fields, Settings, selection, preview flag, history, cursor and the
\* Recently-Deleted slot stay as they are and no snapshot is pushed.
C11_RemoveAbsentIsNoOp ==
  [][(lastOp'.op = "removeComponent" /\ lastOp'.id \notin FieldIds(components))
     => UNCHANGED store]_vars

\* removeField(F.id) twice: the second call finds nothing and the slot still holds F
C11_Witness ==
  /\ lastOp.op = "removeComponent"
  /\ lastOp.id \notin FieldIds(components)
  /\ pre.age = 1
  /\ pre.op = "removeComponent"
  /\ pre.id = lastOp.id
  /\ recentlyDeleted # Null
  /\ Len(history) = pre.length + 1

\* C12: undo() returns true and moves the cursor down by exactly one iff
\* currentHistoryIndex > 0, else it returns false and changes nothing; redo()
\* returns true and moves the cursor up by exactly one iff
\* currentHistoryIndex < history.length - 1, else it returns false and changes
\* nothing; neither changes the history.
C12_UndoRedoGuards ==
  [][/\ lastOp'.op = "undo"
        => /\ history' = history
           /\ IF currentHistoryIndex > 0
              THEN lastOp'.ret = "true" /\ currentHistoryIndex' = currentHistoryIndex - 1
              ELSE lastOp'.ret = "false" /\ UNCHANGED store
     /\ lastOp'.op = "redo"
        => /\ history' = history
           /\ IF currentHistoryIndex < Len(history) - 1
              THEN lastOp'.ret = "true" /\ currentHistoryIndex' = currentHistoryIndex + 1
              ELSE lastOp'.ret = "false" /\ UNCHANGED store]_vars

C12_Witness ==
  /\ lastOp = Call("redo", 0, "true")
  /\ currentHistoryIndex = 1
  /\ Len(history) > 2

\* C13: reset() leaves Fields empty, Settings at the defaults, no selection,
\* preview mode off, the slot empty and a history of exactly one entry, the
\* empty state, with the cursor on it; canUndo() and canRedo() are then false
\* and an undo() or redo() right after it restores nothing.
C13_Reset ==
  [][/\ lastOp'.op = "reset"
        => /\ components' = <<>>
           /\ formSettings' = initialFormSettings
           /\ selectedComponent' = Null
           /\ isPreviewMode' = FALSE
           /\ recentlyDeleted' = Null
           /\ history' = <<createHistoryState(<<>>, initialFormSettings, Null)>>
           /\ history'[1] = Doc'
           /\ currentHistoryIndex' = 0
           /\ ~canUndo'
           /\ ~canRedo'
     /\ (lastOp.op = "reset" /\ lastOp'.op \in {"undo", "redo"})
        => /\ lastOp'.ret = "false"
           /\ UNCHANGED store]_vars

\* a reset made right after a mutation of a document with a history
C13_Witness ==
  /\ lastOp.op = "reset"
  /\ pre.age = 1
  /\ pre.length > 1
  /\ pre.doc.components # <<>>
  /\ Len(history) = 1

\* C14: selectField changes only the selection and setPreviewMode only the
\* preview flag (history, cursor, Fields, Settings and the slot stay), and
\* undo()/redo() never change the preview flag.
C14_NotHistoried ==
  [][/\ lastOp'.op = "selectComponent"
        => UNCHANGED <<components, formSettings, isPreviewMode, history,
                       currentHistoryIndex, recentlyDeleted>>
     /\ lastOp'.op = "setPreviewMode"
        => UNCHANGED <<components, formSettings, selectedComponent, history,
                       currentHistoryIndex, recentlyDeleted>>
     /\ lastOp'.op \in {"undo", "redo"}
        => UNCHANGED isPreviewMode]_vars

\* a field selected while the slot is full: the slot is still full
C14_Witness ==
  /\ lastOp.op = "selectComponent"
  /\ selectedComponent # Null
  /\ recentlyDeleted # Null
  /\ pre.age = 1
  /\ pre.op = "removeComponent"

\* C15: undoDelete() leaves the history, the cursor, Settings, the selection
\* and the preview flag unchanged whether or not the slot is full; it only
\* puts the slot's field back into Fields and empties the slot.
C15_UndoDeleteSeparateChannel ==
  [][lastOp'.op = "undoDelete"
     => /\ UNCHANGED <<history, currentHistoryIndex, formSettings,
                       selectedComponent, isPreviewMode>>
        /\ recentlyDeleted' = Null
        /\ IF recentlyDeleted = Null
           THEN components' = components
           ELSE /\ Len(components') = Len(components) + 1
                /\ \E p \in DOMAIN components' :
                     /\ components'[p] = recentlyDeleted.component
                     /\ \A i \in DOMAIN components :
                          components[i] = components'[IF i < p THEN i ELSE i + 1]]_vars

\* the selected field removed and brought back: the selection stays none
C15_Witness ==
  /\ lastOp.op = "undoDelete"
  /\ pre.age = 1
  /\ pre.op = "removeComponent"
  /\ pre.doc.selectedComponent # Null
  /\ pre.doc.selectedComponent.id = pre.id
  /\ selectedComponent = Null
  /\ pre.id \in FieldIds(components)
  /\ Len(history) = pre.length + 1

\* C17: canUndo() and canRedo() change no part of the state, and each
\* returns what an undo() / redo() called right after it returns.
C17_CanUndoCanRedo ==
  [][/\ lastOp'.op \in {"canUndo", "canRedo"} => UNCHANGED store
     /\ (lastOp.op = "canUndo" /\ lastOp'.op = "undo") => lastOp'.ret = lastOp.ret
     /\ (lastOp.op = "canRedo" /\ lastOp'.op = "redo") => lastOp'.ret = lastOp.ret]_vars

\* canRedo() answered true at the bottom of a history with entries to redo
C17_Witness ==
  /\ lastOp = Call("canRedo", 0, "true")
  /\ currentHistoryIndex = 0
  /\ Len(history) > 1
  /\ ~canUndo

\* C18: every addField, updateField, reorderFields, updateSettings and
\* successful removeField appends exactly one entry directly after the entry
\* at the cursor, equal to (Fields, Settings, selection) just before the
\* mutation, and puts the cursor on it; the entries up to the old cursor keep
\* their content and order, apart from those dropped at the front by the cap.
C18_PushPolicy ==
  [][(\/ lastOp'.op \in {"addComponent", "updateComponent", "reorderComponents",
                         "updateFormSettings"}
      \/ lastOp'.op = "removeComponent" /\ lastOp'.id \in FieldIds(components))
     => LET kept == currentHistoryIndex + 1
            dropped == IF kept + 1 > HistoryLimit THEN kept + 1 - HistoryLimit ELSE 0
        IN /\ Len(history') = kept + 1 - dropped
           /\ \A i \in (dropped + 1)..kept : history'[i - dropped] = history[i]
           /\ history'[kept + 1 - dropped] = Doc
           /\ currentHistoryIndex' = kept - dropped]_vars

\* a reorder made after an undo: its snapshot sits right after the old cursor
C18_Witness ==
  /\ pre.age = 0
  /\ pre.op = "reorderComponents"
  /\ pre.index >= 1
  /\ pre.index < pre.length - 1
  /\ currentHistoryIndex = pre.index + 1
  /\ Len(history) = pre.index + 2
  /\ history[currentHistoryIndex + 1] = pre.doc

C20_RemovePresent ==
  [][(/\ lastOp'.op = "removeComponent"
      /\ lastOp'.id \in FieldIds(components)
      /\ DistinctIds(components))
     => LET i == CHOOSE k \in DOMAIN components : components[k].id = lastOp'.id
        IN /\ components' = SubSeq(components, 1, i - 1)
                              \o SubSeq(components, i + 1, Len(components))
           /\ (selectedComponent' = Null)
                = (selectedComponent = Null \/ selectedComponent.id = lastOp'.id)
           /\ selectedComponent' # Null => selectedComponent' = selectedComponent
           /\ recentlyDeleted' # Null
           /\ recentlyDeleted'.component = components[i]
           /\ recentlyDeleted'.index = i - 1]_vars

\* a second removal while the slot is full, of the selected field
C20_Witness ==
  /\ pre.age = 0
  /\ pre.op = "removeComponent"
  /\ pre.slot # Null
  /\ recentlyDeleted # Null
  /\ recentlyDeleted.component.id = pre.id
  /\ recentlyDeleted.component.id # pre.slot.component.id
  /\ pre.doc.selectedComponent # Null
  /\ selectedComponent = Null

\* C16: snapshot independence -- no Field object and no Settings object is
\* shared by reference between a stored history entry and the current state,
\* or between two history entries.
C16_SnapshotIndependence ==
  LET FieldRefs(e) == ({e.comps[i] : i \in DOMAIN e.comps} \cup {e.sel}) \ {0}
      Apart(a, b) == FieldRefs(a) \cap FieldRefs(b) = {} /\ a.settings # b.settings
  IN /\ \A k \in DOMAIN refs.hist : Apart(refs.hist[k], refs)
     /\ \A j, k \in DOMAIN refs.hist : j # k => Apart(refs.hist[j], refs.hist[k])

\* C21: each structural mutation is atomic to observers -- no state a
\* subscriber is shown has the snapshot of the last call pushed and the
\* cursor on it while the call's own change is still missing: after an add
\* the new field is in Fields, after a remove the field is out of Fields and
\* in the slot, after any other structural mutation the slot is empty.
C21_MutationAtomic ==
  (/\ pre.age = 0
   /\ history[currentHistoryIndex + 1] = pre.doc)
  => /\ lastOp.op = "addComponent" => lastOp.id \in FieldIds(components)
     /\ lastOp.op = "removeComponent" =>
          /\ lastOp.id \notin FieldIds(components)
          /\ recentlyDeleted # Null
          /\ recentlyDeleted.component.id = lastOp.id
     /\ lastOp.op \in StructuralOps \ {"removeComponent"} => recentlyDeleted = Null

\* C22: whenever the Recently-Deleted slot is full, Fields is the sequence
\* the removeField that filled it produced: a step that leaves the slot full
\* is either that removeField or changes neither Fields nor the slot. Hence
\* the recorded index is within 0..length(Fields), the recorded field's id is
\* in no current field, and undoDelete's splice never clamps.
C22_SlotMatchesFields ==
  /\ [](recentlyDeleted # Null
        => /\ 0 <= recentlyDeleted.index
           /\ recentlyDeleted.index <= Len(components)
           /\ recentlyDeleted.component.id \notin FieldIds(components))
  /\ [][recentlyDeleted' # Null
        => \/ /\ lastOp'.op = "removeComponent"
              /\ lastOp'.id \in FieldIds(components)
              /\ components' = FilterOut(components, lastOp'.id)
              /\ recentlyDeleted'.component.id = lastOp'.id
           \/ /\ components' = components
              /\ recentlyDeleted' = recentlyDeleted]_vars

\* the last field removed (its index is the new length), then a call that
\* leaves the slot full
C22_Witness ==
  /\ recentlyDeleted # Null
  /\ lastOp.op = "selectComponent"
  /\ Len(components) >= 1
  /\ recentlyDeleted.index = Len(components)

\* C23: with addField given only ids never used before, updateField never
\* changing an id and reorderFields given only permutations of Fields, the
\* field ids in Fields and in every history entry are pairwise distinct in
\* every reachable state.
C23_DistinctIds ==
  /\ DistinctIds(components)
  /\ \A k \in DOMAIN history : DistinctIds(history[k].components)

\* a removed field brought back by undoDelete next to another field, with a
\* two-field entry in the history
C23_Witness ==
  /\ lastOp.op = "undoDelete"
  /\ Len(components) >= 2
  /\ \E k \in DOMAIN history : Len(history[k].components) >= 2

====
